---- MODULE Spec2Model ----
(***************************************************************************)
(* Regular expression to NFA by Thompson's construction, as implemented in *)
(* src/RegexToNFA/regex_to_nfa.py: implicit-concatenation insertion,       *)
(* shunting-yard conversion to postfix, the fragment stack machine, the    *)
(* accept flag set by the caller and the recursive traversal used by the   *)
(* renderer.  Characters are one-character strings; a regex is a sequence  *)
(* of characters.                                                          *)
(***************************************************************************)
EXTENDS Integers, Sequences, FiniteSets, TLC

\* ------------------------------------------------------------------ bounds
\* Longest raw input string drawn over InputChars.
MaxLen == 4
\* Largest syntax tree (in nodes) whose rendering is drawn as an input.
MaxNodes == 5
\* Longest word fed to the NFA simulation.
MaxWord == 3

\* ------------------------------------------------------- program constants
\* The literal alphabet `chars` (line 47) holds the 36 ASCII lowercase letters
\* and digits; three letters stand for them here.
chars == {"a", "b", "c"}
\* Characters outside `chars` for which str.isalnum() is still true.
OtherAlnum == {"A"}
\* The precedence table (line 44).
precedence == [c \in {"*", ".", "|"} |-> IF c = "*" THEN 3 ELSE IF c = "." THEN 2 ELSE 1]
\* The epsilon label used as a dictionary key in the transitions.
Eps == "eps"
\* The interpreter's recursion limit (sys.getrecursionlimit(), which the
\* program never changes).  Only the active traverse calls are counted
\* against it here; the frames below them (the Tk main loop,
\* on_generate_click, visualize_nfa) and above them (add_state) use up some
\* of it as well, so the program reaches the limit no later than this.
RecursionLimit == 1000
\* Python's None.
None == [start |-> 0, accept |-> 0]

\* Characters a raw input string is drawn from: two literals, the four
\* operators, the character the normalizer inserts, and two characters that
\* are neither literal nor operator.
InputChars == {"a", "b", "|", "*", "(", ")", ".", "$", "A"}

\* --------------------------------------------------------- sequence helpers
Last(s) == s[Len(s)]
Front(s) == SubSeq(s, 1, Len(s) - 1)
Range(s) == {s[i] : i \in 1..Len(s)}

RECURSIVE StringsOfLen(_, _)
StringsOfLen(S, n) ==
  IF n = 0 THEN {<<>>}
  ELSE {Append(s, c) : s \in StringsOfLen(S, n - 1), c \in S}

StringsUpTo(S, n) == UNION {StringsOfLen(S, k) : k \in 0..n}

\* ------------------------------------------------------ reference grammar
\* Well-formed regexes are the strings derived by
\*   E ::= E '|' T  |  T      T ::= T F  |  F
\*   F ::= F '*'  |  A        A ::= literal  |  '(' E ')'
\* i.e. star binds tighter than concatenation, which binds tighter than
\* union, and the binary operators associate to the left.  A level names the
\* nonterminal a tree is derived from: 0 = E, 1 = T, 2 = F, 3 = A;
\* TreesOfSize(n, lvl) are the trees of n nodes derivable from level lvl.
Lit(c) == [op |-> "lit", c |-> c]
Grp(e) == [op |-> "grp", e |-> e]
Star(e) == [op |-> "star", e |-> e]
Cat(l, r) == [op |-> "cat", l |-> l, r |-> r]
Alt(l, r) == [op |-> "alt", l |-> l, r |-> r]

TreeLits == {"a", "b"}

RECURSIVE TreesOfSize(_, _)
TreesOfSize(n, lvl) ==
  IF n <= 0 THEN {}
  ELSE (IF n = 1 THEN {Lit(c) : c \in TreeLits} ELSE {})
       \cup {Grp(e) : e \in TreesOfSize(n - 1, 0)}
       \cup (IF lvl <= 2 THEN {Star(e) : e \in TreesOfSize(n - 1, 2)} ELSE {})
       \cup (IF lvl <= 1
             THEN UNION {{Cat(l, r) : l \in TreesOfSize(i, 1),
                                      r \in TreesOfSize(n - 1 - i, 2)}
                         : i \in 1..(n - 2)}
             ELSE {})
       \cup (IF lvl <= 0
             THEN UNION {{Alt(l, r) : l \in TreesOfSize(i, 0),
                                      r \in TreesOfSize(n - 1 - i, 1)}
                         : i \in 1..(n - 2)}
             ELSE {})

\* The literal c, and the two expressions the documentation works through:
\* a|bc*  and  (a|b)*c.
ExampleTrees ==
  { Lit("c"),
    Alt(Lit("a"), Cat(Lit("b"), Star(Lit("c")))),
    Cat(Star(Grp(Alt(Lit("a"), Lit("b")))), Lit("c")) }

Trees == UNION {TreesOfSize(n, 0) : n \in 1..MaxNodes} \cup ExampleTrees

\* The string a tree is written as.
RECURSIVE Render(_)
Render(t) ==
  CASE t.op = "lit" -> <<t.c>>
    [] t.op = "grp" -> <<"(">> \o Render(t.e) \o <<")">>
    [] t.op = "star" -> Render(t.e) \o <<"*">>
    [] t.op = "cat" -> Render(t.l) \o Render(t.r)
    [] t.op = "alt" -> Render(t.l) \o <<"|">> \o Render(t.r)

\* The postfix form of a tree: operands first, then the operator, with "."
\* for concatenation and nothing for grouping.
RECURSIVE PostfixOf(_)
PostfixOf(t) ==
  CASE t.op = "lit" -> <<t.c>>
    [] t.op = "grp" -> PostfixOf(t.e)
    [] t.op = "star" -> PostfixOf(t.e) \o <<"*">>
    [] t.op = "cat" -> PostfixOf(t.l) \o PostfixOf(t.r) \o <<".">>
    [] t.op = "alt" -> PostfixOf(t.l) \o PostfixOf(t.r) \o <<"|">>

\* The language of a tree: w is a word of t.
RECURSIVE Matches(_, _)
Matches(t, w) ==
  CASE t.op = "lit" -> w = <<t.c>>
    [] t.op = "grp" -> Matches(t.e, w)
    [] t.op = "alt" -> Matches(t.l, w) \/ Matches(t.r, w)
    [] t.op = "cat" ->
         \E i \in 0..Len(w) :
            Matches(t.l, SubSeq(w, 1, i)) /\ Matches(t.r, SubSeq(w, i + 1, Len(w)))
    [] t.op = "star" ->
         \/ w = <<>>
         \/ \E i \in 1..Len(w) :
               Matches(t.e, SubSeq(w, 1, i)) /\ Matches(t, SubSeq(w, i + 1, Len(w)))

NoTree == [op |-> "none"]
WellFormedInputs == {Render(t) : t \in Trees}
RawInputs == StringsUpTo(InputChars, MaxLen) \ WellFormedInputs
\* A run of literals long enough for the chain of its NFA, two states a
\* literal, to be deeper than the recursion limit.
DeepInput == [i \in 1..(RecursionLimit \div 2 + 1) |-> "a"]
Words == StringsUpTo(chars, MaxWord)

\* ------------------------------------------------------------ dictionaries
\* A Python dict, kept as the sequence of its items in insertion order.
Keys(d) == {d[i].key : i \in 1..Len(d)}
GetItem(d, k) == d[CHOOSE i \in 1..Len(d) : d[i].key = k].val
\* d[k] = v: replaces the value of an existing key in place, else appends.
SetItem(d, k, v) ==
  IF k \in Keys(d)
  THEN [i \in 1..Len(d) |-> IF d[i].key = k THEN [key |-> k, val |-> v] ELSE d[i]]
  ELSE Append(d, [key |-> k, val |-> v])

\* -------------------------------------------------------- State and NFA
\* State(): no transitions, not accepting.  The objects created so far are
\* the sequence `states`; an object's identity is its index.
State == [transitions |-> <<>>, is_accept |-> FALSE]
NFA(start, accept) == [start |-> start, accept |-> accept]

\* state.transitions[k] = v on the object s.
SetTransition(ss, s, k, v) ==
  [ss EXCEPT ![s].transitions = SetItem(@, k, v)]

\* Faulty variants of the builders, used to show that the properties below
\* depend on what the builders do.
\* create_basic_nfa that flags its accept state at once.
create_basic_nfa_Flagged(ss, char) ==
  LET start == Len(ss) + 1
      accept == Len(ss) + 2
      ss2 == ss \o <<State, [State EXCEPT !.is_accept = TRUE]>>
  IN [states |-> SetTransition(ss2, start, char, <<accept>>),
      nfa |-> NFA(start, accept)]

\* apply_concatenation that joins the fragments through a fresh state.
apply_concatenation_ViaNewState(ss, nfa1, nfa2) ==
  LET mid == Len(ss) + 1
      ss2 == SetTransition(ss \o <<State>>, nfa1.accept, Eps, <<mid>>)
  IN [states |-> SetTransition(ss2, mid, Eps, <<nfa2.start>>),
      nfa |-> NFA(nfa1.start, nfa2.accept)]

\* apply_kleene_star without the edge that skips the starred fragment.
apply_kleene_star_NoSkip(ss, nfa1) ==
  LET start == Len(ss) + 1
      accept == Len(ss) + 2
      ss2 == ss \o <<State, State>>
      ss3 == SetTransition(ss2, start, Eps, <<nfa1.start>>)
  IN [states |-> SetTransition(ss3, nfa1.accept, Eps, <<nfa1.start, accept>>),
      nfa |-> NFA(start, accept)]

\* apply_union that returns the left operand's accept state as the accept.
apply_union_OldAccept(ss, nfa1, nfa2) ==
  LET start == Len(ss) + 1
      accept == Len(ss) + 2
      ss2 == ss \o <<State, State>>
      ss3 == SetTransition(ss2, start, Eps, <<nfa1.start, nfa2.start>>)
      ss4 == SetTransition(ss3, nfa1.accept, Eps, <<accept>>)
  IN [states |-> SetTransition(ss4, nfa2.accept, Eps, <<accept>>),
      nfa |-> NFA(start, nfa1.accept)]

\* Each builder returns the objects after its call and the NFA it returns.
create_basic_nfa(ss, char) ==
  LET start == Len(ss) + 1
      accept == Len(ss) + 2
      ss2 == ss \o <<State, State>>
  IN [states |-> SetTransition(ss2, start, char, <<accept>>),
      nfa |-> NFA(start, accept)]

apply_concatenation(ss, nfa1, nfa2) ==
  [states |-> SetTransition(ss, nfa1.accept, Eps, <<nfa2.start>>),
   nfa |-> NFA(nfa1.start, nfa2.accept)]

apply_union(ss, nfa1, nfa2) ==
  LET start == Len(ss) + 1
      accept == Len(ss) + 2
      ss2 == ss \o <<State, State>>
      ss3 == SetTransition(ss2, start, Eps, <<nfa1.start, nfa2.start>>)
      ss4 == SetTransition(ss3, nfa1.accept, Eps, <<accept>>)
  IN [states |-> SetTransition(ss4, nfa2.accept, Eps, <<accept>>),
      nfa |-> NFA(start, accept)]

apply_kleene_star(ss, nfa1) ==
  LET start == Len(ss) + 1
      accept == Len(ss) + 2
      ss2 == ss \o <<State, State>>
      ss3 == SetTransition(ss2, start, Eps, <<nfa1.start, accept>>)
  IN [states |-> SetTransition(ss3, nfa1.accept, Eps, <<nfa1.start, accept>>),
      nfa |-> NFA(start, accept)]

\* ------------------------------------------------------- regex_to_postfix
\* Lines 51-55, one iteration of the normalizing loop: what is appended to
\* new_regex for position i of r, a "." after the character when r[i] is a
\* literal, ")" or "*" and r[i+1] is a literal or "(".
InsertConcat(r, i) ==
  <<r[i]>>
  \o (IF /\ i + 1 <= Len(r)
         /\ (r[i] \in chars \/ r[i] = ")" \/ r[i] = "*")
         /\ (r[i + 1] \in chars \/ r[i + 1] = "(")
      THEN <<".">> ELSE <<>>)

\* Lines 64-65: pop operators to the output down to a "(" or the bottom.
RECURSIVE PopToParen(_, _)
PopToParen(out, ops) ==
  IF ops # <<>> /\ Last(ops) # "("
  THEN PopToParen(Append(out, Last(ops)), Front(ops))
  ELSE [output |-> out, operators |-> ops]

\* Faulty variant: pops only the operators that bind strictly tighter.
RECURSIVE PopHigher_Strict(_, _, _)
PopHigher_Strict(out, ops, char) ==
  IF ops # <<>> /\ Last(ops) # "(" /\ precedence[Last(ops)] > precedence[char]
  THEN PopHigher_Strict(Append(out, Last(ops)), Front(ops), char)
  ELSE [output |-> out, operators |-> ops]

\* Lines 68-70: pop the operators that bind at least as tightly as char.
RECURSIVE PopHigher(_, _, _)
PopHigher(out, ops, char) ==
  IF ops # <<>> /\ Last(ops) # "(" /\ precedence[Last(ops)] >= precedence[char]
  THEN PopHigher(Append(out, Last(ops)), Front(ops), char)
  ELSE [output |-> out, operators |-> ops]

\* Lines 72-73: pop whatever is left, "(" included.
RECURSIVE PopAll(_, _)
PopAll(out, ops) ==
  IF ops # <<>> THEN PopAll(Append(out, Last(ops)), Front(ops)) ELSE out

\* Faulty variant: a ")" that finds no "(" is passed over.
ShuntChar_GuardedPop(out, ops, char) ==
  IF char \in chars
  THEN [output |-> Append(out, char), operators |-> ops, raised |-> ""]
  ELSE IF char = "("
  THEN [output |-> out, operators |-> Append(ops, char), raised |-> ""]
  ELSE IF char = ")"
  THEN LET p == PopToParen(out, ops)
       IN [output |-> p.output,
           operators |-> IF p.operators = <<>> THEN <<>> ELSE Front(p.operators),
           raised |-> ""]
  ELSE IF char \in DOMAIN precedence
  THEN LET p == PopHigher(out, ops, char)
       IN [output |-> p.output, operators |-> Append(p.operators, char), raised |-> ""]
  ELSE [output |-> out, operators |-> ops, raised |-> ""]

\* One iteration of the loop of lines 58-71.  raised is the exception the
\* iteration ends with ("" for none): list.pop() of an empty list.
ShuntChar(out, ops, char) ==
  IF char \in chars
  THEN [output |-> Append(out, char), operators |-> ops, raised |-> ""]
  ELSE IF char = "("
  THEN [output |-> out, operators |-> Append(ops, char), raised |-> ""]
  ELSE IF char = ")"
  THEN LET p == PopToParen(out, ops)
       IN IF p.operators = <<>>
          THEN [output |-> p.output, operators |-> <<>>, raised |-> "IndexError"]
          ELSE [output |-> p.output, operators |-> Front(p.operators), raised |-> ""]
  ELSE IF char \in DOMAIN precedence
  THEN LET p == PopHigher(out, ops, char)
       IN [output |-> p.output, operators |-> Append(p.operators, char), raised |-> ""]
  ELSE [output |-> out, operators |-> ops, raised |-> ""]

\* ------------------------------------------------- thompsons_construction
\* str.isalnum() on one character.
isalnum(char) == char \in chars \cup OtherAlnum

\* One iteration of the loop of lines 81-94 on the fragment stack.
AssembleToken(ss, stk, char) ==
  IF isalnum(char)
  THEN LET b == create_basic_nfa(ss, char)
       IN [states |-> b.states, stack |-> Append(stk, b.nfa), raised |-> ""]
  ELSE IF char = "." \/ char = "|"
  THEN IF Len(stk) < 2
       THEN [states |-> ss,
             stack |-> IF stk = <<>> THEN stk ELSE Front(stk),
             raised |-> "IndexError"]
       ELSE LET nfa2 == Last(stk)
                nfa1 == Last(Front(stk))
                b == IF char = "." THEN apply_concatenation(ss, nfa1, nfa2)
                                   ELSE apply_union(ss, nfa1, nfa2)
            IN [states |-> b.states,
                stack |-> Append(Front(Front(stk)), b.nfa),
                raised |-> ""]
  ELSE IF char = "*"
  THEN IF stk = <<>>
       THEN [states |-> ss, stack |-> stk, raised |-> "IndexError"]
       ELSE LET b == apply_kleene_star(ss, Last(stk))
            IN [states |-> b.states, stack |-> Append(Front(stk), b.nfa), raised |-> ""]
  ELSE [states |-> ss, stack |-> stk, raised |-> ""]

\* Faulty variant: the top fragment is returned whatever else is stacked.
FinalCheck_TopOnly(stk) == IF stk = <<>> THEN None ELSE Last(stk)

\* Lines 96-99: the NFA returned, or None when ValueError is raised.
FinalCheck(stk) == IF Len(stk) # 1 THEN None ELSE stk[1]

\* ------------------------------------------------------------- traversal
\* The targets of a state in the order the loops of lines 133-134 meet them.
RECURSIVE Flatten(_)
Flatten(d) == IF d = <<>> THEN <<>> ELSE Head(d).val \o Flatten(Tail(d))
Targets(ss, s) == Flatten(ss[s].transitions)

\* ----------------------------------------------------------------- state
VARIABLES
  regex,       \* the text of the entry widget, as on_generate_click reads it
  ast,         \* the syntax tree regex was written from, NoTree for a raw string
  pc,          \* where on_generate_click stands
  exc,         \* the exception caught at line 165 ("" for none)
  new_regex,   \* regex with the concatenation operator made explicit
  pos,         \* the next position of the running for loop
  output,      \* regex_to_postfix: the output list
  operators,   \* regex_to_postfix: the operator stack
  postfix,     \* the string regex_to_postfix returned
  stack,       \* thompsons_construction: the fragment stack
  states,      \* every State object created, in creation order
  nfa,         \* what thompsons_construction returned (None before)
  visited,     \* traverse: the visited set
  nodes,       \* the states handed to add_state, in call order
  calls        \* the active traverse calls: the state and the targets left

vars == <<regex, ast, pc, exc, new_regex, pos, output, operators, postfix,
          stack, states, nfa, visited, nodes, calls>>

Init ==
  /\ \/ ast \in Trees /\ regex = Render(ast)
     \/ ast = NoTree /\ regex \in RawInputs \cup {DeepInput}
  /\ pc = (IF regex = <<>> THEN "shunt" ELSE "normalize")
  /\ exc = ""
  /\ new_regex = <<>>
  /\ pos = 1
  /\ output = <<>>
  /\ operators = <<>>
  /\ postfix = <<>>
  /\ stack = <<>>
  /\ states = <<>>
  /\ nfa = None
  /\ visited = {}
  /\ nodes = <<>>
  /\ calls = <<>>

\* Lines 50-56: one character of the regex in the normalizing loop; after
\* the last one the shunting loop begins.
NormalizeStep ==
  /\ pc = "normalize"
  /\ pos <= Len(regex)
  /\ new_regex' = new_regex \o InsertConcat(regex, pos)
  /\ pos' = IF pos = Len(regex) THEN 1 ELSE pos + 1
  /\ pc' = IF pos = Len(regex) THEN "shunt" ELSE "normalize"
  /\ UNCHANGED <<regex, ast, exc, output, operators, postfix, stack, states,
                 nfa, visited, nodes, calls>>

\* Lines 58-71: one character of the normalized regex.
ShuntStep ==
  /\ pc = "shunt"
  /\ pos <= Len(new_regex)
  /\ LET r == ShuntChar(output, operators, new_regex[pos])
     IN /\ output' = r.output
        /\ operators' = r.operators
        /\ exc' = r.raised
        /\ pc' = IF r.raised = "" THEN "shunt" ELSE "error"
  /\ pos' = pos + 1
  /\ UNCHANGED <<regex, ast, new_regex, postfix, stack, states, nfa, visited,
                 nodes, calls>>

\* Lines 72-79: the remaining operators are popped and the postfix returned.
Drain ==
  /\ pc = "shunt"
  /\ pos > Len(new_regex)
  /\ output' = PopAll(output, operators)
  /\ operators' = <<>>
  /\ postfix' = output'
  /\ pos' = 1
  /\ pc' = "assemble"
  /\ UNCHANGED <<regex, ast, exc, new_regex, stack, states, nfa, visited,
                 nodes, calls>>

\* Lines 81-94: one token of the postfix string.
AssembleStep ==
  /\ pc = "assemble"
  /\ pos <= Len(postfix)
  /\ LET r == AssembleToken(states, stack, postfix[pos])
     IN /\ states' = r.states
        /\ stack' = r.stack
        /\ exc' = r.raised
        /\ pc' = IF r.raised = "" THEN "assemble" ELSE "error"
  /\ pos' = pos + 1
  /\ UNCHANGED <<regex, ast, new_regex, output, operators, postfix, nfa,
                 visited, nodes, calls>>

\* Lines 96-99 and 146: the final check and the return to the caller.
Finish ==
  /\ pc = "assemble"
  /\ pos > Len(postfix)
  /\ nfa' = FinalCheck(stack)
  /\ exc' = IF nfa' = None THEN "ValueError" ELSE ""
  /\ pc' = IF nfa' = None THEN "error" ELSE "returned"
  /\ UNCHANGED <<regex, ast, new_regex, pos, output, operators, postfix, stack,
                 states, visited, nodes, calls>>

\* Line 147: nfa.accept.is_accept = True.
MarkAccept ==
  /\ pc = "returned"
  /\ states' = [states EXCEPT ![nfa.accept].is_accept = TRUE]
  /\ pc' = "marked"
  /\ UNCHANGED <<regex, ast, exc, new_regex, pos, output, operators, postfix,
                 stack, nfa, visited, nodes, calls>>

\* Lines 128-132 for a call traverse(s, visited) made with the calls cs
\* active.  A call beyond the recursion limit raises RecursionError, which
\* unwinds every call and is caught at line 165.  Otherwise nothing happens
\* for a visited state, and any other state is added to the visited set,
\* handed to add_state, and its loop begins.
Enter(s, cs) ==
  IF Len(cs) >= RecursionLimit
  THEN /\ pc' = "error"
       /\ exc' = "RecursionError"
       /\ calls' = <<>>
       /\ UNCHANGED <<visited, nodes>>
  ELSE /\ pc' = "traverse"
       /\ exc' = exc
       /\ IF s \in visited
          THEN /\ calls' = cs
               /\ UNCHANGED <<visited, nodes>>
          ELSE /\ visited' = visited \cup {s}
               /\ nodes' = Append(nodes, s)
               /\ calls' = Append(cs, [state |-> s, todo |-> Targets(states, s)])

\* Line 138: traverse(nfa.start, set(), is_initial=True).
TraverseStart ==
  /\ pc = "marked"
  /\ Enter(nfa.start, <<>>)
  /\ UNCHANGED <<regex, ast, new_regex, pos, output, operators, postfix,
                 stack, states, nfa>>

\* Lines 133-135: the innermost call takes its next target and recurses.
TraverseStep ==
  /\ pc = "traverse"
  /\ calls # <<>>
  /\ Last(calls).todo # <<>>
  /\ Enter(Head(Last(calls).todo),
           [calls EXCEPT ![Len(calls)].todo = Tail(@)])
  /\ UNCHANGED <<regex, ast, new_regex, pos, output, operators, postfix,
                 stack, states, nfa>>

\* The innermost call has no target left and returns; the return of the
\* outermost call ends the traversal (line 139 follows).
TraverseReturn ==
  /\ pc = "traverse"
  /\ calls # <<>>
  /\ Last(calls).todo = <<>>
  /\ calls' = Front(calls)
  /\ pc' = IF Len(calls) = 1 THEN "done" ELSE "traverse"
  /\ UNCHANGED <<regex, ast, exc, new_regex, pos, output, operators, postfix,
                 stack, states, nfa, visited, nodes>>

Next ==
  \/ NormalizeStep
  \/ ShuntStep
  \/ Drain
  \/ AssembleStep
  \/ Finish
  \/ MarkAccept
  \/ TraverseStart
  \/ TraverseStep
  \/ TraverseReturn

Spec == Init /\ [][Next]_vars

\* ------------------------------------------------------- NFA simulation
\* Epsilon-closure simulation of the objects ss from nfa.start to nfa.accept.
Succ(ss, s, k) ==
  IF k \in Keys(ss[s].transitions) THEN Range(GetItem(ss[s].transitions, k)) ELSE {}

RECURSIVE EClose(_, _)
EClose(ss, S) ==
  LET T == S \cup UNION {Succ(ss, s, Eps) : s \in S}
  IN IF T = S THEN S ELSE EClose(ss, T)

Move(ss, S, c) == UNION {Succ(ss, s, c) : s \in S}

RECURSIVE RunFrom(_, _, _)
RunFrom(ss, S, w) ==
  IF w = <<>> THEN S ELSE RunFrom(ss, EClose(ss, Move(ss, S, Head(w))), Tail(w))

Accepts(ss, n, w) == n.accept \in RunFrom(ss, EClose(ss, {n.start}), w)

\* The states reachable from s0 over any transition.
RECURSIVE ReachFrom(_, _)
ReachFrom(ss, S) ==
  LET T == S \cup UNION {Range(Targets(ss, s)) : s \in S}
  IN IF T = S THEN S ELSE ReachFrom(ss, T)

Reachable(ss, s0) == ReachFrom(ss, {s0})

\* ---------------------------------------------------------------- claims
\* thompsons_construction has returned an NFA to on_generate_click.
Returned == nfa # None
\* Line 147 has run.
Marked == nfa # None /\ pc # "returned"
\* on_generate_click has come to its end.
Ended == ~ENABLED Next
Operators == {"|", "*", "(", ")"}
Count(s, S) == Cardinality({i \in 1..Len(s) : s[i] \in S})
RECURSIVE Restrict(_, _)
Restrict(s, S) ==
  IF s = <<>> THEN <<>>
  ELSE (IF Head(s) \in S THEN <<Head(s)>> ELSE <<>>) \o Restrict(Tail(s), S)
Str1(a) == <<a>>
Str2(a, b) == <<a, b>>
Str3(a, b, c) == <<a, b, c>>
Language == {w \in Words : Accepts(states, nfa, w)}

\* C1: for every well-formed regex the construction returns an NFA, and that
\* NFA accepts, by epsilon-closure simulation from nfa.start to nfa.accept,
\* exactly the words of the regex's language; "c" accepts exactly c, "ab"
\* exactly ab, "a|b" exactly a and b, "a*" exactly the words a^n.
C1_LanguageExact ==
  (ast # NoTree) =>
    /\ pc # "error"
    /\ (pc = "returned") =>
         /\ \A w \in Words : Accepts(states, nfa, w) <=> Matches(ast, w)
         /\ regex = Str1("c") => Language = {Str1("c")}
         /\ regex = Str2("a", "b") => Language = {Str2("a", "b")}
         /\ regex = Str3("a", "|", "b") => Language = {Str1("a"), Str1("b")}
         /\ regex = Str2("a", "*") => Language = {w \in Words : Range(w) \subseteq {"a"}}

C1_Witness ==
  /\ pc = "returned"
  /\ regex = Render(Cat(Star(Grp(Alt(Lit("a"), Lit("b")))), Lit("c")))
  /\ Accepts(states, nfa, Str3("a", "b", "c"))
  /\ ~Accepts(states, nfa, Str2("a", "b"))

\* C2: when a "(" was left on the operator stack at the end of the input (it
\* is then the only way a "(" gets into the postfix string), no NFA is
\* returned.
C2_UnmatchedOpenFails ==
  ("(" \in Range(postfix)) => ~Returned

\* C3: a ")" read while no "(" is on the operator stack ends the construction
\* at that token with an error and no NFA, whatever was on the stack, and
\* nothing follows an error.
C3_UnmatchedCloseFails ==
  /\ [][(/\ pc = "shunt"
         /\ pos <= Len(new_regex)
         /\ new_regex[pos] = ")"
         /\ "(" \notin Range(operators))
        => (pc' = "error" /\ exc' # "" /\ nfa' = None)]_vars
  /\ [][pc # "error"]_vars

C3_Witness ==
  /\ pc = "error"
  /\ postfix = <<>>
  /\ exc = "IndexError"
  /\ new_regex[pos - 1] = ")"
  /\ "|" \in Range(output)

\* C4: an input holding a character that is neither a literal nor one of
\* | * ( ) never yields an NFA.
C4_UnsupportedCharFails ==
  (\E i \in 1..Len(regex) : regex[i] \notin chars \cup Operators)
    => ~Returned

\* The fragment-stack depth after the first k tokens of p when no operator
\* underflows: a literal pushes one fragment, "." and "|" replace two by one,
\* "*" replaces one by one, any other token is passed over.
DepthAt(p, k) == Count(SubSeq(p, 1, k), chars) - Count(SubSeq(p, 1, k), {".", "|"})
\* No operator of p finds too few fragments, and one fragment is left.
WellStacked(p) ==
  /\ \A k \in 1..Len(p) :
       /\ p[k] \in {".", "|"} => DepthAt(p, k - 1) >= 2
       /\ p[k] = "*" => DepthAt(p, k - 1) >= 1
  /\ DepthAt(p, Len(p)) = 1

\* C5: an NFA is returned only when no operator of the postfix string found
\* too few fragments and exactly one fragment is left, and it is that
\* fragment; in every other case the construction ends with an error and
\* nothing is returned.
C5_ReturnsOnlyWellStacked ==
  /\ Returned => (pc \notin {"normalize", "shunt", "assemble"} /\ stack = <<nfa>>)
  /\ (pc = "returned") => WellStacked(postfix)
  /\ Ended => (pc \in {"done", "error"})
  /\ (Ended /\ ~WellStacked(postfix)) =>
       (pc = "error" /\ exc \in {"IndexError", "ValueError"} /\ nfa = None)

C5_Witness ==
  /\ pc = "error"
  /\ exc = "ValueError"
  /\ Len(stack) = 2

\* C6: for a well-formed regex the postfix string is the postfix form of its
\* syntax tree under star > concatenation > union, left associative: no
\* parentheses, the literals in their input order, each operator after its
\* operands.
C6_PostfixOfTree ==
  (ast # NoTree /\ pc \notin {"normalize", "shunt"}) =>
    /\ postfix = PostfixOf(ast)
    /\ Range(postfix) \cap {"(", ")"} = {}
    /\ Restrict(postfix, chars) = Restrict(regex, chars)

C6_Witness ==
  /\ pc = "assemble"
  /\ regex = Render(Alt(Lit("a"), Cat(Lit("b"), Star(Lit("c")))))
  /\ postfix = <<"a", "b", "c", "*", ".", "|">>

\* C7: a state is marked accepting only once the construction has returned
\* its single surviving fragment, and only that fragment's accept state is;
\* from then on the automaton has exactly one accepting state, and its start
\* and accept are the surviving fragment's.
C7_OnlyFinalAccepts ==
  /\ \A s \in 1..Len(states) :
       states[s].is_accept => (Marked /\ stack = <<nfa>> /\ s = nfa.accept)
  /\ Marked =>
       /\ {s \in 1..Len(states) : states[s].is_accept} = {nfa.accept}
       /\ nfa.start = stack[1].start
       /\ nfa.accept = stack[1].accept
       /\ Len(stack) = 1

C7_Witness ==
  /\ pc = "done"
  /\ Len(states) = 6
  /\ states[nfa.accept].is_accept

\* C8: each literal, union and star token creates two states and each
\* concatenation none, so a returned NFA has
\* 2 x (literals + unions + stars) states; "ab" is the chain
\* start --a--> s1 --eps--> s2 --b--> accept.
C8_StateCount ==
  /\ (pc = "assemble") =>
       Len(states) = 2 * Count(SubSeq(postfix, 1, pos - 1), chars \cup {"|", "*"})
  /\ Returned => Len(states) = 2 * Count(regex, chars \cup {"|", "*"})
  /\ (Returned /\ regex = Str2("a", "b")) =>
       /\ nfa = NFA(1, 4)
       /\ states[1].transitions = <<[key |-> "a", val |-> <<2>>]>>
       /\ states[2].transitions = <<[key |-> Eps, val |-> <<3>>]>>
       /\ states[3].transitions = <<[key |-> "b", val |-> <<4>>]>>
       /\ states[4].transitions = <<>>
  /\ (Returned /\ regex = Str1("a")) => Len(states) = 2
  /\ (Returned /\ regex = Str3("a", "|", "b")) => Len(states) = 6
  /\ (Returned /\ regex = Str2("a", "*")) => Len(states) = 4

C8_Witness ==
  /\ pc = "done"
  /\ regex = Str2("a", "b")
  /\ Len(states) = 4

NoDuplicates(s) == Cardinality(Range(s)) = Len(s)

\* C9: the traversal of a returned NFA hands no state to add_state twice,
\* and on_generate_click ends only with the traversal complete, every state
\* reachable from nfa.start visited.
C9_TraversalVisitsOnce ==
  /\ NoDuplicates(nodes)
  /\ Range(nodes) = visited
  /\ (Returned /\ Ended) =>
       (pc = "done" /\ visited = Reachable(states, nfa.start))

\* C10: the accept state of every fragment on the stack has no outgoing
\* transition, and no step removes or replaces a transition a state had.
C10_AcceptsHaveNoOut ==
  /\ [](\A i \in 1..Len(stack) : states[stack[i].accept].transitions = <<>>)
  /\ [][\A s \in 1..Len(states) :
          \A i \in 1..Len(states[s].transitions) :
             /\ Len(states'[s].transitions) >= i
             /\ states'[s].transitions[i] = states[s].transitions[i]]_vars

C10_Witness ==
  /\ pc = "assemble"
  /\ Len(stack) = 2
  /\ \E s \in 1..Len(states) : Eps \in Keys(states[s].transitions)

====
